---- MODULE Spec2Model ----
(***************************************************************************)
(* State-machine model of the <combo-box> custom element                   *)
(* (src/src/combo-box.ts): the selection / navigation / expansion logic,   *)
(* the listener group tied to the expanded state, and the host-owned list  *)
(* of slotted candidate elements.                                          *)
(***************************************************************************)
EXTENDS Integers, Sequences, FiniteSets, TLC

----------------------------------------------------------------------------
(* Bounds of the model *)

\* number of distinct candidate elements the host can have created at once
MaxNodes == 1
\* calls of expandSuggestionList allowed between two collapses
MaxExpandCalls == 2
\* length of a tracked run of navigation steps (SpecNav)
MaxRun == 7
\* candidates of the fixed lists SpecNav starts from
MaxNavNodes == 4
\* keys typed into the input in a tracked typing session (SpecTyping)
MaxText == 3
\* candidate elements the host can have created at once in SpecList
MaxListNodes == 2

----------------------------------------------------------------------------
(* Values *)

\* a JS null / undefined reference to an element or to an AbortController
Null == 0
\* the JS value undefined where a string is expected
Undefined == "undefined"

Nodes == 1 .. MaxNodes
NavNodes == 1 .. MaxNavNodes
ListNodes == 1 .. MaxListNodes
AllNodes == Nodes \cup NavNodes \cup ListNodes

\* the unique id the host gives candidate n when it gives one ("" otherwise)
UniqueIds == <<"li-1", "li-2", "li-3", "li-4", "li-5", "li-6">>
IdOf(n, hasId) == IF hasId THEN UniqueIds[n] ELSE ""

\* data-value of candidate n in the host markup: odd candidates carry one
DataValues == <<"v1", Undefined, "v3", Undefined, "v5", Undefined>>
DataValueOf(n) == DataValues[n]

\* pointer coordinates of pointer events; 0 is an unset pointerX / pointerY
Points == {<<1, 1>>, <<1, 2>>}

\* text of the input element when an input event is handled
Texts == {"a", "ab"}

\* the characters the user types
Keys == {"a", "b"}

RECURSIVE Join(_)
\* the text of an input the keys were typed into, starting empty
Join(keys) == IF keys = <<>> THEN "" ELSE Head(keys) \o Join(Tail(keys))

\* keys handleKeyboardNavigation has no case for, or an empty one
OtherKeys == {"Shift", "Alt", "a"}
\* an element the host has not created (or has dropped)
Blank == [id |-> "", disabled |-> FALSE, role |-> FALSE,
          ariaSelected |-> FALSE, dataValue |-> Undefined]

Min(a, b) == IF a < b THEN a ELSE b
Max(a, b) == IF a > b THEN a ELSE b

RECURSIVE Filter(_, _)
\* the members of seq that are in set keep, in order
Filter(seq, keep) ==
  IF seq = <<>> THEN <<>>
  ELSE IF Head(seq) \in keep THEN <<Head(seq)>> \o Filter(Tail(seq), keep)
  ELSE Filter(Tail(seq), keep)

\* Array.prototype.indexOf: 0-based index of the first occurrence, or -1
indexOf(seq, x) ==
  IF \E i \in 1 .. Len(seq) : seq[i] = x
  THEN (CHOOSE i \in 1 .. Len(seq) :
          seq[i] = x /\ \A j \in 1 .. (i - 1) : seq[j] # x) - 1
  ELSE -1

\* array[i] with a 0-based index: undefined (Null) when out of range
At(seq, i) == IF i >= 0 /\ i < Len(seq) THEN seq[i + 1] ELSE Null

----------------------------------------------------------------------------
(* The widget's state: the fields of ComboBox and of the DOM around it *)

VARIABLES
  children,          \* slotted <li> elements in document order (host-owned)
  attrs,             \* attributes of every element: id, disabled, role, ...
  selectedSuggestion,
  isExpanded,
  suggestionListAbortController,
  listeners,         \* active listeners added by expandSuggestionList
  pointerX,
  pointerY,
  allowNavigationWrap,
  allowTabNavigation,
  focus,             \* "input" when the <input> is the active element
  connected,         \* the element is in the document
  slotchangePending, \* a slotchange event is queued
  lastEvent,         \* the event dispatched last
  emitted,           \* notifications dispatched while handling lastEvent
  error,             \* a handler of lastEvent threw (uncaught TypeError)
  scrolled,          \* element scrolled into view while handling lastEvent
  formValue,         \* value given to setFormValue while handling lastEvent
  propagationStopped, \* lastEvent was stopped from propagating
  pointerEvent,      \* target and coordinates of lastEvent (pointer events)
  run,               \* navigation steps taken since nothing was selected
  typing,            \* keys typed into the input, and what they notified
  constructed,       \* the AnacapriEvent constructed last, and its init
  inputText          \* the value property and the text of the <input>

widgetVars == <<children, attrs, selectedSuggestion, isExpanded,
                suggestionListAbortController, listeners, pointerX, pointerY,
                allowNavigationWrap, allowTabNavigation, focus, connected,
                slotchangePending>>
eventVars == <<lastEvent, emitted, error, scrolled, formValue,
               propagationStopped, pointerEvent>>
\* what only the specification about it keeps track of: the histories kept
\* for the properties, and the text of the input (elsewhere an input event
\* brings any text along)
ghostVars == <<run, typing, constructed, inputText>>
vars == <<widgetVars, eventVars, ghostVars>>

\* the pointerEvent of an event that is not a pointer event
NoPointer == [target |-> Null, x |-> 0, y |-> 0]

\* the state a handler starts from: the fields, and an empty event record
Self ==
  [children |-> children, attrs |-> attrs,
   selectedSuggestion |-> selectedSuggestion, isExpanded |-> isExpanded,
   suggestionListAbortController |-> suggestionListAbortController,
   listeners |-> listeners, pointerX |-> pointerX, pointerY |-> pointerY,
   allowNavigationWrap |-> allowNavigationWrap,
   allowTabNavigation |-> allowTabNavigation,
   focus |-> focus, connected |-> connected,
   emitted |-> <<>>, error |-> FALSE, scrolled |-> Null,
   formValue |-> Undefined, propagationStopped |-> FALSE,
   pointerEvent |-> NoPointer,
   defaultPrevented |-> FALSE, aborted |-> {}]

----------------------------------------------------------------------------
(* The methods of ComboBox, as functions from state to state *)

\* suggestionItemElements without the selector: disabled children included
suggestionItemElementsUnfiltered(st) ==
  Filter(st.children, AllNodes)

\* @queryAssignedElements({flatten: true, selector: ':not([disabled])'}):
\* evaluated on every access, so always the current enabled children
suggestionItemElements(st) ==
  Filter(st.children, {n \in AllNodes : ~st.attrs[n].disabled})

\* element.closest('[role="option"]'): the element itself when it carries the
\* role; its ancestors (the host and above) never do
closestOption(st, element) ==
  IF element # Null /\ st.attrs[element].role THEN element ELSE Null

\* a fresh AbortController: the smallest identity not in use
newAbortController(st) ==
  CHOOSE c \in 1 .. (Len(st.listeners) + Cardinality(st.aborted) + 2) :
    /\ c # st.suggestionListAbortController
    /\ c \notin st.aborted
    /\ \A i \in 1 .. Len(st.listeners) : st.listeners[i].signal # c
    /\ \A d \in 1 .. (c - 1) :
         \/ d = st.suggestionListAbortController
         \/ d \in st.aborted
         \/ \E i \in 1 .. Len(st.listeners) : st.listeners[i].signal = d

\* AbortController.abort(): every listener added with its signal is removed
abort(st, controller) ==
  IF controller = Null THEN st
  ELSE LET kept == {i \in 1 .. Len(st.listeners) :
                      st.listeners[i].signal # controller}
           RECURSIVE Keep(_)
           Keep(i) == IF i > Len(st.listeners) THEN <<>>
                      ELSE IF i \in kept
                           THEN <<st.listeners[i]>> \o Keep(i + 1)
                           ELSE Keep(i + 1)
       IN [st EXCEPT !.listeners = Keep(1),
                     !.aborted = @ \cup {controller}]

\* the detail of an event constructed without one
NoDetail == [target |-> Null, id |-> Undefined, value |-> Undefined]

\* AnacapriEvent keeping none of the caller's flags
AnacapriEventAllTrue(type, eventInitDict) ==
  LET detail == IF "detail" \in DOMAIN eventInitDict
                THEN eventInitDict.detail ELSE NoDetail
  IN [type |-> type,
      bubbles |-> TRUE, composed |-> TRUE, cancelable |-> TRUE,
      target |-> detail.target, id |-> detail.id, value |-> detail.value]

\* new AnacapriEvent(type, eventInitDict): a property that is not in the
\* dictionary is undefined; the fields of detail are kept next to the flags
AnacapriEvent(type, eventInitDict) ==
  LET bubbles == IF "bubbles" \in DOMAIN eventInitDict
                 THEN eventInitDict.bubbles ELSE TRUE
      composed == IF "composed" \in DOMAIN eventInitDict
                  THEN eventInitDict.composed ELSE TRUE
      cancelable == IF "cancelable" \in DOMAIN eventInitDict
                    THEN eventInitDict.cancelable ELSE TRUE
      detail == IF "detail" \in DOMAIN eventInitDict
                THEN eventInitDict.detail ELSE NoDetail
  IN [type |-> type,
      bubbles |-> bubbles, composed |-> composed, cancelable |-> cancelable,
      target |-> detail.target, id |-> detail.id, value |-> detail.value]

deselectSuggestion(st) ==
  IF st.selectedSuggestion = Null THEN st
  ELSE [st EXCEPT !.attrs[st.selectedSuggestion].ariaSelected = FALSE,
                  !.selectedSuggestion = Null]

selectSuggestion(st, suggestion, shouldScrollIntoView) ==
  LET d == deselectSuggestion(st)
  IN IF suggestion = Null
     THEN \* suggestion.setAttribute on undefined throws a TypeError
          [d EXCEPT !.error = TRUE]
     ELSE [d EXCEPT !.attrs[suggestion].ariaSelected = TRUE,
                    !.scrolled = IF shouldScrollIntoView
                                 THEN suggestion ELSE @,
                    !.selectedSuggestion = suggestion]

\* navigateSelection wrapping forward one step too late
navigateSelectionWrapsLate(st, step) ==
  LET items == suggestionItemElements(st)
      currentIndex == IF st.selectedSuggestion # Null
                      THEN indexOf(items, st.selectedSuggestion)
                      ELSE -1
      moved == currentIndex + step
      nextIndex == IF ~st.allowNavigationWrap
                   THEN Max(Min(Len(items) - 1, moved), 0)
                   ELSE IF moved < 0 THEN Len(items) - 1
                   ELSE IF moved > Len(items) THEN 0
                   ELSE moved
  IN IF currentIndex # nextIndex
     THEN selectSuggestion(st, At(items, nextIndex), TRUE)
     ELSE st

\* navigateSelection stopping at the first candidate instead of wrapping
navigateSelectionStopsAtFirst(st, step) ==
  LET items == suggestionItemElements(st)
      currentIndex == IF st.selectedSuggestion # Null
                      THEN indexOf(items, st.selectedSuggestion)
                      ELSE -1
      moved == currentIndex + step
      nextIndex == IF ~st.allowNavigationWrap
                   THEN Max(Min(Len(items) - 1, moved), 0)
                   ELSE IF moved < 0 THEN 0
                   ELSE IF moved >= Len(items) THEN 0
                   ELSE moved
  IN IF currentIndex # nextIndex
     THEN selectSuggestion(st, At(items, nextIndex), TRUE)
     ELSE st

\* navigateSelection clamping at the length instead of the last index
navigateSelectionClampsLate(st, step) ==
  LET items == suggestionItemElements(st)
      currentIndex == IF st.selectedSuggestion # Null
                      THEN indexOf(items, st.selectedSuggestion)
                      ELSE -1
      moved == currentIndex + step
      nextIndex == IF ~st.allowNavigationWrap
                   THEN Max(Min(Len(items), moved), 0)
                   ELSE IF moved < 0 THEN Len(items) - 1
                   ELSE IF moved >= Len(items) THEN 0
                   ELSE moved
  IN IF currentIndex # nextIndex
     THEN selectSuggestion(st, At(items, nextIndex), TRUE)
     ELSE st

navigateSelection(st, step) ==
  LET items == suggestionItemElements(st)
      currentIndex == IF st.selectedSuggestion # Null
                      THEN indexOf(items, st.selectedSuggestion)
                      ELSE -1
      moved == currentIndex + step
      nextIndex == IF ~st.allowNavigationWrap
                   THEN Max(Min(Len(items) - 1, moved), 0)
                   ELSE IF moved < 0 THEN Len(items) - 1
                   ELSE IF moved >= Len(items) THEN 0
                   ELSE moved
  IN IF currentIndex # nextIndex
     THEN selectSuggestion(st, At(items, nextIndex), TRUE)
     ELSE st

expandSuggestionList(st) ==
  LET controller == IF st.suggestionListAbortController = Null
                    THEN newAbortController(st)
                    ELSE st.suggestionListAbortController
  IN [st EXCEPT
        !.suggestionListAbortController = controller,
        !.listeners = @ \o
           << [target |-> "document", type |-> "click",
               signal |-> controller],
              [target |-> "suggestionList", type |-> "pointerover",
               signal |-> controller],
              [target |-> "suggestionList", type |-> "click",
               signal |-> controller] >>,
        !.isExpanded = TRUE]

\* collapseSuggestionList dropping the controller without aborting it
collapseSuggestionListWithoutAbort(st) ==
  LET n == [st EXCEPT !.suggestionListAbortController = Null]
      d == deselectSuggestion(n)
  IN [d EXCEPT !.isExpanded = FALSE]

collapseSuggestionList(st) ==
  LET a == abort(st, st.suggestionListAbortController)
      n == [a EXCEPT !.suggestionListAbortController = Null]
      d == deselectSuggestion(n)
  IN [d EXCEPT !.isExpanded = FALSE]

\* handleFocusInput expanding whether or not there is a candidate to show
handleFocusInputWithoutCheck(st) ==
  IF Len(suggestionItemElements(st)) >= 0
  THEN expandSuggestionList(st)
  ELSE st

handleFocusInput(st) ==
  IF Len(suggestionItemElements(st)) > 0
  THEN expandSuggestionList(st)
  ELSE st

\* inputElement.focus(): fires the focus event, synchronously, only when the
\* input is in the document and is not the active element already
focusInput(st) ==
  IF st.focus = "input" \/ ~st.connected THEN st
  ELSE handleFocusInput([st EXCEPT !.focus = "input"])

commitSelection(st) ==
  IF st.selectedSuggestion = Null THEN st
  ELSE LET target == closestOption(st, st.selectedSuggestion)
       IN IF target = Null THEN st
          ELSE LET value == st.attrs[target].dataValue
                   e == [st EXCEPT
                           !.emitted = Append(@,
                              AnacapriEvent("select",
                                [detail |->
                                   [target |-> target,
                                    id |-> st.attrs[target].id,
                                    value |-> value]])),
                           !.formValue = IF value = Undefined
                                         THEN "null" ELSE value]
               IN collapseSuggestionList(focusInput(e))

\* handleInput leaving out e.stopPropagation()
handleInputPropagating(st, text) ==
  LET x == expandSuggestionList(st)
  IN [x EXCEPT !.emitted = Append(@,
        AnacapriEvent("input",
          [detail |-> [target |-> Null, id |-> Undefined,
                       value |-> text]]))]

\* text: e.target.value, the text of the input when the event is handled
handleInput(st, text) ==
  LET s == [st EXCEPT !.propagationStopped = TRUE]
      x == expandSuggestionList(s)
  IN [x EXCEPT !.emitted = Append(@,
        AnacapriEvent("input",
          [detail |-> [target |-> Null, id |-> Undefined,
                       value |-> text]]))]

\* handleKeyboardNavigation leaving the list open on a Tab that leaves
handleKeyboardNavigationTabLeavesOpen(st, key, shiftKey) ==
  LET prevented == [st EXCEPT !.defaultPrevented = TRUE]
  IN CASE key = "Enter" -> commitSelection(prevented)
       [] key = "ArrowDown" -> navigateSelection(prevented, 1)
       [] key = "ArrowUp" -> navigateSelection(prevented, -1)
       [] key = "Escape" -> collapseSuggestionList(st)
       [] key = "Tab" ->
            IF st.allowTabNavigation /\ st.isExpanded
            THEN IF shiftKey THEN navigateSelection(prevented, -1)
                 ELSE navigateSelection(prevented, 1)
            ELSE st
       [] OTHER -> st

\* handleKeyboardNavigation not looking at the Shift key
handleKeyboardNavigationWithoutShift(st, key, shiftKey) ==
  LET prevented == [st EXCEPT !.defaultPrevented = TRUE]
  IN CASE key = "Enter" -> commitSelection(prevented)
       [] key = "ArrowDown" -> navigateSelection(prevented, 1)
       [] key = "ArrowUp" -> navigateSelection(prevented, -1)
       [] key = "Escape" -> collapseSuggestionList(st)
       [] key = "Tab" ->
            IF st.allowTabNavigation /\ st.isExpanded
            THEN navigateSelection(prevented, 1)
            ELSE collapseSuggestionList(st)
       [] OTHER -> st

\* handleKeyboardNavigation collapsing on the keys it has no case for
handleKeyboardNavigationOtherCollapses(st, key, shiftKey) ==
  LET prevented == [st EXCEPT !.defaultPrevented = TRUE]
  IN CASE key = "Enter" -> commitSelection(prevented)
       [] key = "ArrowDown" -> navigateSelection(prevented, 1)
       [] key = "ArrowUp" -> navigateSelection(prevented, -1)
       [] key = "Escape" -> collapseSuggestionList(st)
       [] key = "Tab" ->
            IF st.allowTabNavigation /\ st.isExpanded
            THEN IF shiftKey THEN navigateSelection(prevented, -1)
                 ELSE navigateSelection(prevented, 1)
            ELSE collapseSuggestionList(st)
       [] OTHER -> collapseSuggestionList(st)

handleKeyboardNavigation(st, key, shiftKey) ==
  LET prevented == [st EXCEPT !.defaultPrevented = TRUE]
  IN CASE key = "Enter" -> commitSelection(prevented)
       [] key = "ArrowDown" -> navigateSelection(prevented, 1)
       [] key = "ArrowUp" -> navigateSelection(prevented, -1)
       [] key = "Escape" -> collapseSuggestionList(st)
       [] key = "Tab" ->
            IF st.allowTabNavigation /\ st.isExpanded
            THEN IF shiftKey THEN navigateSelection(prevented, -1)
                 ELSE navigateSelection(prevented, 1)
            ELSE collapseSuggestionList(st)
       [] OTHER -> st

handlePointerMoveSelection(st, eventTarget, x, y) ==
  LET target == closestOption(st, eventTarget)
  IN IF target = Null \/ (st.pointerX = x /\ st.pointerY = y) THEN st
     ELSE [selectSuggestion(st, target, FALSE) EXCEPT
             !.pointerX = x, !.pointerY = y]

\* handleClickEvents collapsing on the clicks inside instead
handleClickEventsInverted(st, inside) ==
  IF ~inside THEN focusInput(st) ELSE collapseSuggestionList(st)

\* inside: this.contains(e.target)
handleClickEvents(st, inside) ==
  IF inside THEN focusInput(st) ELSE collapseSuggestionList(st)

\* prepareSuggestionElements keeping the first candidate with the id, not
\* the last
prepareSuggestionElementsFirstMatch(st) ==
  LET lastSelectedSuggestion == st.selectedSuggestion
      lastId == IF lastSelectedSuggestion = Null THEN Undefined
                ELSE st.attrs[lastSelectedSuggestion].id
      items == suggestionItemElements(st)
      matches == {i \in 1 .. Len(items) : st.attrs[items[i]].id = lastId}
      kept == IF matches = {} THEN Null
              ELSE items[CHOOSE i \in matches : \A j \in matches : i <= j]
  IN [st EXCEPT
        !.attrs = [n \in AllNodes |->
                     IF \E i \in 1 .. Len(items) : items[i] = n
                     THEN [@[n] EXCEPT !.role = TRUE] ELSE @[n]],
        !.selectedSuggestion = kept,
        !.scrolled = IF kept # Null THEN kept ELSE At(items, 0)]

prepareSuggestionElements(st) ==
  LET lastSelectedSuggestion == st.selectedSuggestion
      lastId == IF lastSelectedSuggestion = Null THEN Undefined
                ELSE st.attrs[lastSelectedSuggestion].id
      items == suggestionItemElements(st)
      matches == {i \in 1 .. Len(items) : st.attrs[items[i]].id = lastId}
      \* the loop does not stop at the first match: the last one wins
      kept == IF matches = {} THEN Null
              ELSE items[CHOOSE i \in matches : \A j \in matches : j <= i]
  IN [st EXCEPT
        !.attrs = [n \in AllNodes |->
                     IF \E i \in 1 .. Len(items) : items[i] = n
                     THEN [@[n] EXCEPT !.role = TRUE] ELSE @[n]],
        !.selectedSuggestion = kept,
        !.scrolled = IF kept # Null THEN kept ELSE At(items, 0)]

----------------------------------------------------------------------------
(* Event dispatch *)

\* the listeners of one target and type, in the order they were added
listenersOn(st, target, type) ==
  LET RECURSIVE Pick(_)
      Pick(i) == IF i > Len(st.listeners) THEN <<>>
                 ELSE IF st.listeners[i].target = target
                         /\ st.listeners[i].type = type
                      THEN <<st.listeners[i]>> \o Pick(i + 1)
                      ELSE Pick(i + 1)
  IN Pick(1)

RECURSIVE dispatchListClick(_, _)
\* the click listeners of the suggestion list: () => this.commitSelection();
\* a listener removed (aborted) earlier in the dispatch is not invoked
dispatchListClick(st, snapshot) ==
  IF snapshot = <<>> THEN st
  ELSE dispatchListClick(
         IF Head(snapshot).signal \in st.aborted THEN st
         ELSE commitSelection(st),
         Tail(snapshot))

RECURSIVE dispatchDocumentClick(_, _, _)
\* the click listeners of the document: (e) => this.handleClickEvents(e)
dispatchDocumentClick(st, snapshot, inside) ==
  IF snapshot = <<>> THEN st
  ELSE dispatchDocumentClick(
         IF Head(snapshot).signal \in st.aborted THEN st
         ELSE handleClickEvents(st, inside),
         Tail(snapshot), inside)

RECURSIVE dispatchPointerOver(_, _, _, _, _)
\* the pointerover listeners of the suggestion list
dispatchPointerOver(st, snapshot, eventTarget, x, y) ==
  IF snapshot = <<>> THEN st
  ELSE dispatchPointerOver(
         IF Head(snapshot).signal \in st.aborted THEN st
         ELSE handlePointerMoveSelection(st, eventTarget, x, y),
         Tail(snapshot), eventTarget, x, y)

\* a click bubbles from the suggestion list (when it started there) to the
\* document; each target's listeners are collected when the event arrives
dispatchClick(st, inList, inside) ==
  LET atList == IF inList
                THEN dispatchListClick(st,
                       listenersOn(st, "suggestionList", "click"))
                ELSE st
  IN dispatchDocumentClick(atList,
       listenersOn(atList, "document", "click"), inside)

\* number of expandSuggestionList calls the active listeners stem from
expandCalls(st) == Len(listenersOn(st, "document", "click"))

\* the handlers have run: their result becomes the state
Finish(st, event) ==
  /\ expandCalls(st) <= MaxExpandCalls
  /\ children' = st.children
  /\ attrs' = [n \in AllNodes |->
                 \* an element neither slotted nor selected is out of reach
                 IF n = st.selectedSuggestion
                      \/ \E i \in 1 .. Len(st.children) : st.children[i] = n
                 THEN st.attrs[n] ELSE Blank]
  /\ selectedSuggestion' = st.selectedSuggestion
  /\ isExpanded' = st.isExpanded
  /\ suggestionListAbortController' = st.suggestionListAbortController
  /\ listeners' = st.listeners
  /\ pointerX' = st.pointerX
  /\ pointerY' = st.pointerY
  /\ allowNavigationWrap' = st.allowNavigationWrap
  /\ allowTabNavigation' = st.allowTabNavigation
  /\ focus' = st.focus
  /\ connected' = st.connected
  /\ lastEvent' = event
  /\ emitted' = st.emitted
  /\ error' = st.error
  /\ scrolled' = st.scrolled
  /\ formValue' = st.formValue
  /\ propagationStopped' = st.propagationStopped
  /\ pointerEvent' = st.pointerEvent

\* user events reach the widget between tasks: a queued slotchange has run
Idle == connected /\ ~slotchangePending

----------------------------------------------------------------------------
(* User events *)

\* the input becomes the active element (Tab, click or script)
FocusStep ==
  /\ Idle /\ focus # "input"
  /\ Finish(focusInput(Self), "focus")
  /\ UNCHANGED slotchangePending

\* the input stops being the active element; the widget has no blur handler
BlurStep ==
  /\ Idle /\ focus = "input"
  /\ Finish([Self EXCEPT !.focus = "elsewhere"], "blur")
  /\ UNCHANGED slotchangePending

\* the user edits the text of the input
InputStep(text) ==
  /\ Idle /\ focus = "input"
  /\ Finish(handleInput(Self, text), "input")
  /\ UNCHANGED slotchangePending

KeyStep(key, shiftKey) ==
  /\ Idle /\ focus = "input"
  /\ LET st == handleKeyboardNavigation(Self, key, shiftKey)
     IN Finish(
          \* the default action of Tab moves focus out of the input
          IF key = "Tab" /\ ~st.defaultPrevented
          THEN [st EXCEPT !.focus = "elsewhere"] ELSE st,
          IF key = "Tab" /\ shiftKey THEN "ShiftTab" ELSE key)
  /\ UNCHANGED slotchangePending

\* the pointer is over the open suggestion list, on candidate eventTarget
\* (Null: on no candidate)
PointerOverStep(eventTarget, point) ==
  /\ Idle
  /\ listenersOn(Self, "suggestionList", "pointerover") # <<>>
  /\ eventTarget = Null \/ \E i \in 1 .. Len(children) :
                              children[i] = eventTarget
  /\ LET e == [Self EXCEPT !.pointerEvent =
                  [target |-> eventTarget, x |-> point[1], y |-> point[2]]]
     IN Finish(dispatchPointerOver(e,
                 listenersOn(e, "suggestionList", "pointerover"),
                 eventTarget, point[1], point[2]), "pointerover")
  /\ UNCHANGED slotchangePending

\* a click inside the open suggestion list, on candidate eventTarget (Null:
\* on no candidate); the listeners do not look at the target
ClickListStep(eventTarget) ==
  /\ Idle
  /\ listenersOn(Self, "suggestionList", "click") # <<>>
  /\ eventTarget = Null \/ \E i \in 1 .. Len(children) :
                              children[i] = eventTarget
  /\ LET e == [Self EXCEPT !.pointerEvent =
                  [target |-> eventTarget, x |-> 0, y |-> 0]]
     IN Finish(dispatchClick(e, TRUE, TRUE), "clickList")
  /\ UNCHANGED slotchangePending

\* a click on the widget outside the suggestion list (input, indicator)
ClickInsideStep ==
  /\ Idle
  /\ listenersOn(Self, "document", "click") # <<>>
  /\ Finish(dispatchClick(Self, FALSE, TRUE), "clickInside")
  /\ UNCHANGED slotchangePending

\* a click somewhere else in the document
ClickOutsideStep ==
  /\ ~slotchangePending
  /\ listenersOn(Self, "document", "click") # <<>>
  /\ Finish(dispatchClick(Self, FALSE, FALSE), "clickOutside")
  /\ UNCHANGED slotchangePending

----------------------------------------------------------------------------
(* Host events *)

\* the element the host creates next, out of the elements nodes
freshNode(nodes) ==
  CHOOSE n \in nodes :
    /\ n # selectedSuggestion
    /\ \A i \in 1 .. Len(children) : children[i] # n
    /\ \A m \in nodes :
         (m # selectedSuggestion /\ \A i \in 1 .. Len(children) :
                                       children[i] # m) => n <= m

\* the host inserts a new <li> before position pos
HostAddStep(nodes, pos, hasId, disabled) ==
  /\ connected
  /\ Len(children) < Cardinality(nodes)
  /\ \E n \in nodes : n # selectedSuggestion
                      /\ \A i \in 1 .. Len(children) : children[i] # n
  /\ pos \in 1 .. (Len(children) + 1)
  /\ LET n == freshNode(nodes)
     IN Finish([Self EXCEPT
          !.children = SubSeq(@, 1, pos - 1) \o <<n>>
                         \o SubSeq(@, pos, Len(@)),
          !.attrs[n] = [id |-> IdOf(n, hasId), disabled |-> disabled,
                        role |-> FALSE, ariaSelected |-> FALSE,
                        dataValue |-> DataValueOf(n)]], "hostAdd")
  /\ slotchangePending' = TRUE

\* the host removes the <li> at position pos
HostRemoveStep(pos) ==
  /\ connected
  /\ pos \in 1 .. Len(children)
  /\ Finish([Self EXCEPT
       !.children = SubSeq(@, 1, pos - 1) \o SubSeq(@, pos + 1, Len(@))],
       "hostRemove")
  /\ slotchangePending' = TRUE

\* the host sets or removes the disabled attribute of the <li> at pos: the
\* slot's assigned nodes do not change, so no slotchange is fired
HostSetDisabledStep(pos) ==
  /\ connected
  /\ pos \in 1 .. Len(children)
  /\ Finish([Self EXCEPT !.attrs[children[pos]].disabled = ~@],
            "hostSetDisabled")
  /\ UNCHANGED slotchangePending

\* the queued slotchange event: @slotchange=${this.prepareSuggestionElements}
SlotChangeStep ==
  /\ slotchangePending
  /\ LET st == prepareSuggestionElements(Self)
     IN Finish([st EXCEPT !.attrs =
          [n \in AllNodes |->
             IF n = st.selectedSuggestion
                \/ \E i \in 1 .. Len(st.children) : st.children[i] = n
             THEN @[n] ELSE Blank]], "slotchange")
  /\ slotchangePending' = FALSE

\* the host takes the element out of the document; ComboBox overrides no
\* disconnectedCallback
DisconnectStep ==
  /\ connected
  /\ Finish([Self EXCEPT !.connected = FALSE, !.focus = "elsewhere"],
            "disconnect")
  /\ UNCHANGED slotchangePending

----------------------------------------------------------------------------
(* The widget in a page: every event, in any order *)

\* run of a behaviour that does not count navigation steps
Untracked == [step |-> 0, k |-> 0]
\* typing of a behaviour that does not record the keys typed
Untyped == [keys |-> <<>>, log |-> <<>>]
\* constructed while no AnacapriEvent was constructed on its own
NotConstructed == [init |-> <<>>, event |-> <<>>]
\* inputText of a behaviour that does not follow the text of the input
NoText == [value |-> "", committedValue |-> "", inputValue |-> ""]

\* the element as constructed and first rendered, without candidates
Init ==
  /\ children = <<>>
  /\ attrs = [n \in AllNodes |-> Blank]
  /\ selectedSuggestion = Null
  /\ isExpanded = FALSE
  /\ suggestionListAbortController = Null
  /\ listeners = <<>>
  /\ pointerX = 0
  /\ pointerY = 0
  /\ allowNavigationWrap = TRUE
  /\ allowTabNavigation = FALSE
  /\ focus = "elsewhere"
  /\ connected = TRUE
  /\ slotchangePending = FALSE
  /\ lastEvent = "none"
  /\ emitted = <<>>
  /\ error = FALSE
  /\ scrolled = Null
  /\ formValue = Undefined
  /\ propagationStopped = FALSE
  /\ pointerEvent = NoPointer
  /\ run = Untracked
  /\ typing = Untyped
  /\ constructed = NotConstructed
  /\ inputText = NoText

Focus == FocusStep /\ UNCHANGED ghostVars
Blur == BlurStep /\ UNCHANGED ghostVars
Input == (\E text \in Texts : InputStep(text)) /\ UNCHANGED ghostVars
KeyEnter == KeyStep("Enter", FALSE) /\ UNCHANGED ghostVars
KeyArrowDown == KeyStep("ArrowDown", FALSE) /\ UNCHANGED ghostVars
KeyArrowUp == KeyStep("ArrowUp", FALSE) /\ UNCHANGED ghostVars
KeyEscape == KeyStep("Escape", FALSE) /\ UNCHANGED ghostVars
KeyTab == (\E shiftKey \in BOOLEAN : KeyStep("Tab", shiftKey))
          /\ UNCHANGED ghostVars
KeyOther == (\E key \in OtherKeys : KeyStep(key, FALSE))
            /\ UNCHANGED ghostVars
PointerOver ==
  (\E eventTarget \in Nodes \cup {Null}, point \in Points :
     PointerOverStep(eventTarget, point)) /\ UNCHANGED ghostVars
ClickList == (\E eventTarget \in Nodes \cup {Null} :
                ClickListStep(eventTarget)) /\ UNCHANGED ghostVars
ClickInside == ClickInsideStep /\ UNCHANGED ghostVars
ClickOutside == ClickOutsideStep /\ UNCHANGED ghostVars
\* the host of Spec gives every candidate its unique id, as the widget asks
\* for; candidates without an id are part of SpecList
HostAdd ==
  (\E pos \in 1 .. MaxNodes, disabled \in BOOLEAN :
     HostAddStep(Nodes, pos, TRUE, disabled)) /\ UNCHANGED ghostVars
HostRemove == (\E pos \in 1 .. MaxNodes : HostRemoveStep(pos))
              /\ UNCHANGED ghostVars
HostSetDisabled == (\E pos \in 1 .. MaxNodes : HostSetDisabledStep(pos))
                   /\ UNCHANGED ghostVars
SlotChange == SlotChangeStep /\ UNCHANGED ghostVars
Disconnect == DisconnectStep /\ UNCHANGED ghostVars

Next ==
  \/ Focus \/ Blur \/ Input
  \/ KeyEnter \/ KeyArrowDown \/ KeyArrowUp \/ KeyEscape \/ KeyTab
  \/ KeyOther
  \/ PointerOver \/ ClickList \/ ClickInside \/ ClickOutside
  \/ HostAdd \/ HostRemove \/ HostSetDisabled \/ SlotChange
  \/ Disconnect

Spec == Init /\ [][Next]_vars

----------------------------------------------------------------------------
(* Navigation over a fixed candidate list: the host markup is any list of  *)
(* up to MaxNavNodes candidates, some disabled, the properties are set     *)
(* either way, the first slotchange has run and the input has focus.       *)

\* the state after construction with the markup and the properties given
Constructed(len, disabledAt, wrap, tab) ==
  [children |-> [i \in 1 .. len |-> i],
   attrs |-> [n \in AllNodes |->
                IF n <= len
                THEN [id |-> IdOf(n, TRUE), disabled |-> n \in disabledAt,
                      role |-> FALSE, ariaSelected |-> FALSE,
                      dataValue |-> DataValueOf(n)]
                ELSE Blank],
   selectedSuggestion |-> Null, isExpanded |-> FALSE,
   suggestionListAbortController |-> Null, listeners |-> <<>>,
   pointerX |-> 0, pointerY |-> 0,
   allowNavigationWrap |-> wrap, allowTabNavigation |-> tab,
   focus |-> "elsewhere", connected |-> TRUE,
   emitted |-> <<>>, error |-> FALSE, scrolled |-> Null,
   formValue |-> Undefined, propagationStopped |-> FALSE,
   pointerEvent |-> NoPointer,
   defaultPrevented |-> FALSE, aborted |-> {}]

InitNav ==
  \E len \in 0 .. MaxNavNodes, wrap \in BOOLEAN, tab \in BOOLEAN :
    \E disabledAt \in SUBSET (1 .. len) :
      LET st == focusInput(prepareSuggestionElements(
                  Constructed(len, disabledAt, wrap, tab)))
      IN /\ children = st.children
         /\ attrs = st.attrs
         /\ selectedSuggestion = st.selectedSuggestion
         /\ isExpanded = st.isExpanded
         /\ suggestionListAbortController = st.suggestionListAbortController
         /\ listeners = st.listeners
         /\ pointerX = st.pointerX
         /\ pointerY = st.pointerY
         /\ allowNavigationWrap = st.allowNavigationWrap
         /\ allowTabNavigation = st.allowTabNavigation
         /\ focus = st.focus
         /\ connected = st.connected
         /\ slotchangePending = FALSE
         /\ lastEvent = "focus"
         /\ emitted = <<>>
         /\ error = FALSE
         /\ scrolled = Null
         /\ formValue = Undefined
         /\ propagationStopped = FALSE
         /\ pointerEvent = NoPointer
         /\ run = Untracked
         /\ typing = Untyped
         /\ constructed = NotConstructed
         /\ inputText = NoText

\* one more step in direction step: the run starts over when nothing is
\* selected, goes on when the direction is the same, and is dropped otherwise
Advance(step) ==
  IF selectedSuggestion = Null THEN [step |-> step, k |-> 1]
  ELSE IF run.step = step /\ run.k >= 1 /\ run.k < MaxRun
       THEN [step |-> step, k |-> run.k + 1]
       ELSE Untracked

\* what the navigation steps leave alone
navFrame == <<typing, constructed, inputText>>

NavArrowDown == KeyStep("ArrowDown", FALSE) /\ run' = Advance(1)
                /\ UNCHANGED navFrame
NavArrowUp == KeyStep("ArrowUp", FALSE) /\ run' = Advance(-1)
              /\ UNCHANGED navFrame
NavTab == (\E shiftKey \in BOOLEAN : KeyStep("Tab", shiftKey))
          /\ run' = Untracked /\ UNCHANGED navFrame
NavEscape == KeyStep("Escape", FALSE) /\ run' = Untracked
             /\ UNCHANGED navFrame
NavFocus == FocusStep /\ run' = Untracked /\ UNCHANGED navFrame
NavPointerOver ==
  (\E eventTarget \in NavNodes \cup {Null}, point \in Points :
     PointerOverStep(eventTarget, point))
  /\ run' = Untracked /\ UNCHANGED navFrame

NavClickList ==
  (\E eventTarget \in NavNodes \cup {Null} : ClickListStep(eventTarget))
  /\ run' = Untracked /\ UNCHANGED navFrame

NextNav ==
  \/ NavArrowDown \/ NavArrowUp \/ NavTab \/ NavEscape \/ NavFocus
  \/ NavPointerOver \/ NavClickList

SpecNav == InitNav /\ [][NextNav]_vars

----------------------------------------------------------------------------
(* Typing: the widget is constructed with a value and rendered with up to   *)
(* MaxNodes candidates, the input has focus, and the user types one key     *)
(* after the other; the keys and every input notification dispatched are    *)
(* recorded in typing, the text of the input in inputText.                  *)

\* the values the widget is constructed with
InitialValues == {"", "v"}

\* render assigning the value property to the <input> on every update
renderAssigningAlways(t) ==
  [t EXCEPT !.inputValue = t.value, !.committedValue = t.value]

\* the .value binding of render: lit assigns the property of the <input>
\* only when the bound value is not the one it assigned last
render(t) ==
  IF t.value # t.committedValue
  THEN [t EXCEPT !.inputValue = t.value, !.committedValue = t.value]
  ELSE t

\* the variables hold the fields of state record st, after event
StartsAs(st, event) ==
  /\ children = st.children
  /\ attrs = st.attrs
  /\ selectedSuggestion = st.selectedSuggestion
  /\ isExpanded = st.isExpanded
  /\ suggestionListAbortController = st.suggestionListAbortController
  /\ listeners = st.listeners
  /\ pointerX = st.pointerX
  /\ pointerY = st.pointerY
  /\ allowNavigationWrap = st.allowNavigationWrap
  /\ allowTabNavigation = st.allowTabNavigation
  /\ focus = st.focus
  /\ connected = st.connected
  /\ slotchangePending = FALSE
  /\ lastEvent = event
  /\ emitted = <<>>
  /\ error = FALSE
  /\ scrolled = Null
  /\ formValue = Undefined
  /\ propagationStopped = FALSE
  /\ pointerEvent = NoPointer
  /\ run = Untracked
  /\ typing = Untyped
  /\ constructed = NotConstructed

InitTyping ==
  \E len \in 0 .. MaxNodes : \E disabledAt \in SUBSET (1 .. len) :
    /\ StartsAs(focusInput(prepareSuggestionElements(
                  Constructed(len, disabledAt, TRUE, FALSE))), "focus")
    /\ \E value \in InitialValues :
         inputText = render([value |-> value, committedValue |-> Undefined,
                             inputValue |-> ""])

\* the input notifications of the step, whatever the event, are added to the
\* record
Logged ==
  [typing EXCEPT
     !.log = @ \o SelectSeq(emitted', LAMBDA n : n.type = "input")]

\* what a step of the typing session does besides its handler: it records
\* the notifications, and the update the handler requested renders again
Recorded ==
  /\ typing' = Logged
  /\ inputText' = render(inputText)
  /\ UNCHANGED <<run, constructed>>

\* the user types one more key: the input's text grows by it, then the input
\* event is dispatched and the widget renders again
TypeKey ==
  \E key \in Keys :
    LET typed == inputText.inputValue \o key
    IN /\ Len(typing.keys) < MaxText
       /\ InputStep(typed)
       /\ typing' = [Logged EXCEPT !.keys = Append(@, key)]
       /\ inputText' = render([inputText EXCEPT !.inputValue = typed])
       /\ UNCHANGED <<run, constructed>>
TypingArrowDown == KeyStep("ArrowDown", FALSE) /\ Recorded
TypingEnter == KeyStep("Enter", FALSE) /\ Recorded
TypingEscape == KeyStep("Escape", FALSE) /\ Recorded

NextTyping == TypeKey \/ TypingArrowDown \/ TypingEnter \/ TypingEscape

SpecTyping == InitTyping /\ [][NextTyping]_vars

----------------------------------------------------------------------------
(* A changing list: the widget is rendered without candidates and the      *)
(* input has focus; the host adds, removes, disables and enables up to     *)
(* MaxListNodes candidates while the user navigates with the keyboard.     *)

InitList ==
  /\ StartsAs(focusInput(Constructed(0, {}, TRUE, FALSE)), "focus")
  /\ inputText = NoText

ListHostAdd ==
  (\E pos \in 1 .. MaxListNodes, hasId \in BOOLEAN, disabled \in BOOLEAN :
     HostAddStep(ListNodes, pos, hasId, disabled)) /\ UNCHANGED ghostVars
ListHostRemove == (\E pos \in 1 .. MaxListNodes : HostRemoveStep(pos))
                  /\ UNCHANGED ghostVars
ListHostSetDisabled ==
  (\E pos \in 1 .. MaxListNodes : HostSetDisabledStep(pos))
  /\ UNCHANGED ghostVars

NextList ==
  \/ KeyArrowDown \/ KeyArrowUp \/ KeyEscape
  \/ ListHostAdd \/ ListHostRemove \/ ListHostSetDisabled \/ SlotChange

SpecList == InitList /\ [][NextList]_vars

----------------------------------------------------------------------------
(* Notifications: the widget is rendered with up to MaxNodes candidates and *)
(* emits its notifications as the user types, navigates and commits; next   *)
(* to it, an AnacapriEvent is constructed with any init dictionary.         *)

\* the three flags of an event init dictionary
Flags == {"bubbles", "composed", "cancelable"}

\* the init dictionaries: each flag true, false or left out (undefined); the
\* empty one is also the dictionary that is not given at all
InitDicts == UNION {[given -> BOOLEAN] : given \in SUBSET Flags}

\* new AnacapriEvent(type, eventInitDict) on its own
Construct ==
  /\ \E type \in {"input", "select"}, eventInitDict \in InitDicts :
       constructed' = [init |-> eventInitDict,
                       event |-> <<AnacapriEvent(type, eventInitDict)>>]
  /\ UNCHANGED <<widgetVars, eventVars, run, typing, inputText>>

EventInput == (\E text \in Texts : InputStep(text)) /\ UNCHANGED ghostVars

NextEvent ==
  \/ Construct \/ EventInput
  \/ KeyArrowDown \/ KeyEnter \/ KeyEscape

InitEvent ==
  \E len \in 0 .. MaxNodes : \E disabledAt \in SUBSET (1 .. len) :
    /\ StartsAs(focusInput(prepareSuggestionElements(
                  Constructed(len, disabledAt, TRUE, FALSE))), "focus")
    /\ inputText = NoText

SpecEvent == InitEvent /\ [][NextEvent]_vars

----------------------------------------------------------------------------
(* Properties *)

\* the candidates that are not disabled, in document order
EnabledCandidates == Filter(children, {n \in AllNodes : ~attrs[n].disabled})

\* 0-based position of the selected candidate among the enabled ones, or -1
CurrentPosition ==
  IF \E i \in 1 .. Len(EnabledCandidates) :
       EnabledCandidates[i] = selectedSuggestion
  THEN (CHOOSE i \in 1 .. Len(EnabledCandidates) :
          EnabledCandidates[i] = selectedSuggestion) - 1
  ELSE -1

\* the step just taken was a navigation step forward / backward
SteppedForward ==
  \/ lastEvent' = "ArrowDown"
  \/ lastEvent' = "Tab" /\ allowTabNavigation /\ isExpanded
SteppedBackward ==
  \/ lastEvent' = "ArrowUp"
  \/ lastEvent' = "ShiftTab" /\ allowTabNavigation /\ isExpanded

\* C1: with wrap-around, k forward steps from the unselected state over a
\* fixed list with N >= 1 enabled candidates select the enabled candidate at
\* index (k-1) mod N, and never a disabled one
ForwardNavigationIsCyclic ==
  (/\ run.step = 1 /\ run.k >= 1
   /\ allowNavigationWrap
   /\ Len(EnabledCandidates) >= 1)
  => /\ selectedSuggestion =
          EnabledCandidates[((run.k - 1) % Len(EnabledCandidates)) + 1]
     /\ ~attrs[selectedSuggestion].disabled

\* four candidates, the third disabled: the seventh forward step is back on
\* the first candidate
ForwardCycleWitness ==
  /\ children = <<1, 2, 3, 4>>
  /\ attrs[3].disabled /\ Len(EnabledCandidates) = 3
  /\ allowNavigationWrap
  /\ run = [step |-> 1, k |-> 7]
  /\ selectedSuggestion = 1

\* C2: with wrap-around, k backward steps from the unselected state over a
\* fixed list with N >= 1 enabled candidates select the enabled candidate at
\* index N-1-((k-1) mod N); the first one selects the last candidate
BackwardNavigationIsCyclic ==
  (/\ run.step = -1 /\ run.k >= 1
   /\ allowNavigationWrap
   /\ Len(EnabledCandidates) >= 1)
  => selectedSuggestion =
       EnabledCandidates[Len(EnabledCandidates)
                           - ((run.k - 1) % Len(EnabledCandidates))]

\* four candidates, the third disabled: the fourth backward step is on the
\* last candidate again
BackwardCycleWitness ==
  /\ children = <<1, 2, 3, 4>>
  /\ attrs[3].disabled /\ Len(EnabledCandidates) = 3
  /\ allowNavigationWrap
  /\ run = [step |-> -1, k |-> 4]
  /\ selectedSuggestion = 4

\* C3: without wrap-around and with N >= 1 enabled candidates, a navigation
\* step selects the enabled candidate at index clamp(current + step, 0, N-1)
ClampedNavigation ==
  [][ (/\ SteppedForward \/ SteppedBackward
       /\ ~allowNavigationWrap
       /\ Len(EnabledCandidates) >= 1)
      => selectedSuggestion' =
           EnabledCandidates[
             Max(Min(CurrentPosition + (IF SteppedForward THEN 1 ELSE -1),
                     Len(EnabledCandidates) - 1), 0) + 1] ]_vars

\* a forward step on the last of several candidates has left it selected
ClampedAtEndWitness ==
  /\ lastEvent = "ArrowDown"
  /\ ~allowNavigationWrap
  /\ Len(EnabledCandidates) >= 2
  /\ selectedSuggestion = EnabledCandidates[Len(EnabledCandidates)]
  /\ scrolled = Null /\ ~error

\* C4: with no enabled candidate, a navigation step in either direction
\* raises no error and leaves selection (unset) and expansion as they are
EmptyListNavigationIsNoOp ==
  [][ (/\ SteppedForward \/ SteppedBackward
       /\ Len(EnabledCandidates) = 0
       /\ selectedSuggestion = Null)
      => (/\ ~error'
          /\ selectedSuggestion' = Null
          /\ isExpanded' = isExpanded) ]_vars

\* C5: the selection is none or a candidate that is not disabled, whatever
\* the user and the host have done
SelectionNeverDisabled ==
  selectedSuggestion = Null \/ ~attrs[selectedSuggestion].disabled

\* type and detail of a notification
Payload(notification) ==
  [type |-> notification.type, target |-> notification.target,
   id |-> notification.id, value |-> notification.value]

\* the notifications of type select dispatched by the last event
SelectNotifications(log) ==
  {i \in 1 .. Len(log) : log[i].type = "select"}

\* C6: no navigation step and no hover makes a disabled candidate the
\* selected one, and no select notification carries a disabled candidate
DisabledNeverReached ==
  [][ /\ (/\ \/ SteppedForward \/ SteppedBackward
             \/ lastEvent' = "pointerover"
          /\ selectedSuggestion' # selectedSuggestion
          /\ selectedSuggestion' # Null)
         => ~attrs'[selectedSuggestion'].disabled
      /\ \A i \in SelectNotifications(emitted') :
           ~attrs'[emitted'[i].target].disabled ]_vars

\* the step just taken was a commit: Enter, or a click in the suggestion list
Committed == lastEvent' = "Enter" \/ lastEvent' = "clickList"

\* C7: a commit with no candidate selected emits no select notification and
\* leaves expansion, selection and the attached listeners as they are
CommitWithoutSelectionIsNoOp ==
  [][ (Committed /\ selectedSuggestion = Null)
      => (/\ SelectNotifications(emitted') = {}
          /\ isExpanded' = isExpanded
          /\ selectedSuggestion' = Null
          /\ listeners' = listeners) ]_vars

\* C8: a commit with candidate c selected emits exactly one select
\* notification, with c's id and value, and ends collapsed, with nothing
\* selected and the focus on the input
CommitEmitsSelect ==
  [][ (Committed /\ selectedSuggestion # Null)
      => (/\ Len(emitted') = 1
          /\ Payload(emitted'[1]) =
               [type |-> "select", target |-> selectedSuggestion,
                id |-> attrs[selectedSuggestion].id,
                value |-> attrs[selectedSuggestion].dataValue]
          /\ ~isExpanded'
          /\ selectedSuggestion' = Null
          /\ focus' = "input") ]_vars

\* the abort controllers that are not aborted: the one the widget holds and
\* any that still has a listener attached
ActiveListenerGroups ==
  {listeners[i].signal : i \in 1 .. Len(listeners)}
    \cup (IF suggestionListAbortController # Null
          THEN {suggestionListAbortController} ELSE {})

\* C9: collapsed, the widget has no active listener; expanded, it has
\* exactly one active listener group
ListenerGroupFollowsExpansion ==
  /\ ~isExpanded => listeners = <<>> /\ ActiveListenerGroups = {}
  /\ isExpanded => /\ Cardinality(ActiveListenerGroups) = 1
                   /\ listeners # <<>>

\* the list was expanded again while expanded: still one group
ExpandedTwiceWitness ==
  /\ isExpanded
  /\ Len(listeners) > 3
  /\ ActiveListenerGroups = {suggestionListAbortController}

\* C10: after teardown no document-level listener of the widget is active
NoDocumentListenerAfterTeardown ==
  ~connected =>
    \A i \in 1 .. Len(listeners) : listeners[i].target # "document"

\* C11: the widget starts collapsed; a focus event on the input of a
\* collapsed widget expands it exactly when there is an enabled candidate at
\* that moment; and nothing but a focus or a typing event expands it
ExpandsOnFocusWithCandidates ==
  /\ ~isExpanded
  /\ [][ /\ (lastEvent' = "focus" /\ ~isExpanded)
            => (isExpanded' <=> Len(EnabledCandidates) >= 1)
         /\ (~isExpanded /\ isExpanded')
            => (lastEvent' = "focus" \/ lastEvent' = "input") ]_vars

\* the first focus on a widget with an enabled candidate has expanded it
FocusExpandedWitness ==
  /\ lastEvent = "focus"
  /\ Len(EnabledCandidates) >= 1
  /\ isExpanded /\ Len(listeners) = 3

\* C12: the widget is expanded only while at least one enabled candidate
\* exists
ExpandedOnlyWithCandidates ==
  isExpanded => Len(EnabledCandidates) >= 1

\* the input notifications dispatched since the typing started
InputNotifications == typing.log

\* C13: every input event has produced exactly one input notification, in
\* the order of the events, carrying the text of the input at that moment;
\* the event is stopped from propagating and leaves the widget expanded
InputIsNotified ==
  /\ Len(InputNotifications) = Len(typing.keys)
  /\ \A i \in 1 .. Len(typing.keys) :
       InputNotifications[i].value =
         inputText.value \o Join(SubSeq(typing.keys, 1, i))
  /\ lastEvent = "input"
       => /\ Len(emitted) = 1
          /\ Payload(emitted[1]) =
               [type |-> "input", target |-> Null, id |-> Undefined,
                value |-> inputText.inputValue]
          /\ propagationStopped
          /\ isExpanded

\* "a" then "b" have been typed: two notifications, "a" then "ab"
TypedAbWitness ==
  /\ inputText.value = ""
  /\ typing.keys = <<"a", "b">>
  /\ Len(InputNotifications) = 2
  /\ InputNotifications[1].value = "a"
  /\ InputNotifications[2].value = "ab"
  /\ lastEvent = "input" /\ isExpanded

\* the step just taken was a click on the widget: on its input or indicator,
\* or in its suggestion list
ClickedInside == lastEvent' = "clickInside" \/ lastEvent' = "clickList"

PressedTab == lastEvent' = "Tab" \/ lastEvent' = "ShiftTab"

\* C15: Escape, and Tab while tab navigation is disabled, turn an expanded
\* widget into a collapsed one with nothing selected and the listener group
\* released
EscapeAndTabCollapse ==
  [][ (/\ isExpanded
       /\ \/ lastEvent' = "Escape"
          \/ PressedTab /\ ~allowTabNavigation)
      => (/\ ~isExpanded'
          /\ selectedSuggestion' = Null
          /\ listeners' = <<>>
          /\ suggestionListAbortController' = Null) ]_vars

\* Tab, with tab navigation disabled, has left a widget with candidates
\* collapsed, without listeners, and has moved the focus on
TabCollapsedWitness ==
  /\ lastEvent = "Tab" /\ ~allowTabNavigation
  /\ Len(EnabledCandidates) >= 2
  /\ ~isExpanded /\ selectedSuggestion = Null /\ listeners = <<>>
  /\ focus = "elsewhere"

\* C16: whenever the focus leaves the widget while it is expanded, by
\* whatever means, the widget is collapsed afterwards
FocusLeavingCollapses ==
  [][ (isExpanded /\ focus = "input" /\ focus' = "elsewhere")
      => ~isExpanded' ]_vars

\* 0-based position, among the enabled candidates, one navigation step in
\* direction step away from the selected one: cyclic with wrap-around,
\* clamped without
StepTarget(step) ==
  LET n == Len(EnabledCandidates)
  IN IF allowNavigationWrap
     THEN IF step = 1 THEN (CurrentPosition + 1) % n
          ELSE (Max(CurrentPosition, 0) + n - 1) % n
     ELSE Max(Min(CurrentPosition + step, n - 1), 0)

\* C17: with tab navigation enabled and the widget expanded, Tab is one
\* forward and Shift+Tab one backward navigation step, and the widget stays
\* expanded with the focus on the input; with tab navigation disabled, or
\* collapsed, Tab navigates nowhere: nothing is selected afterwards
TabNavigatesWhenEnabled ==
  [][ PressedTab
      => IF allowTabNavigation /\ isExpanded
         THEN /\ isExpanded' /\ focus' = "input"
              /\ Len(EnabledCandidates) >= 1
                   => selectedSuggestion' =
                        EnabledCandidates[
                          StepTarget(IF lastEvent' = "Tab" THEN 1 ELSE -1)
                            + 1]
         ELSE selectedSuggestion' = Null /\ ~isExpanded' ]_vars

\* Shift+Tab has moved the selection back to the second of three or more
\* candidates
ShiftTabWitness ==
  /\ lastEvent = "ShiftTab" /\ allowTabNavigation
  /\ isExpanded /\ focus = "input"
  /\ Len(EnabledCandidates) >= 3
  /\ selectedSuggestion = EnabledCandidates[2]
  /\ scrolled = selectedSuggestion

\* C18: a pointer-over event over an enabled candidate c of an expanded
\* widget, at coordinates other than the recorded ones, selects c, deselects
\* the candidate selected before, scrolls nothing, records the coordinates
\* and leaves the widget expanded; at the recorded coordinates it changes
\* neither selection nor expansion
HoverSelectsCandidate ==
  [][ (/\ lastEvent' = "pointerover"
       /\ isExpanded
       /\ pointerEvent'.target # Null
       /\ ~attrs[pointerEvent'.target].disabled)
      => IF pointerEvent'.x # pointerX \/ pointerEvent'.y # pointerY
         THEN /\ selectedSuggestion' = pointerEvent'.target
              /\ attrs'[pointerEvent'.target].ariaSelected
              /\ (/\ selectedSuggestion # Null
                  /\ selectedSuggestion # pointerEvent'.target)
                 => ~attrs'[selectedSuggestion].ariaSelected
              /\ scrolled' = Null
              /\ isExpanded'
              /\ pointerX' = pointerEvent'.x
              /\ pointerY' = pointerEvent'.y
         ELSE /\ selectedSuggestion' = selectedSuggestion
              /\ isExpanded' ]_vars

\* C19: a hover or a click, while expanded, on a target in the suggestion
\* list that is not a recognized, enabled candidate (no element, a disabled
\* one, or one without the option role) changes neither selection nor
\* expansion and emits no select notification
UnrecognizedTargetIsIgnored ==
  [][ (/\ lastEvent' = "pointerover" \/ lastEvent' = "clickList"
       /\ isExpanded
       /\ \/ pointerEvent'.target = Null
          \/ attrs[pointerEvent'.target].disabled
          \/ ~attrs[pointerEvent'.target].role)
      => (/\ selectedSuggestion' = selectedSuggestion
          /\ isExpanded'
          /\ SelectNotifications(emitted') = {}) ]_vars

\* C20: in every state, a candidate carries aria-selected="true" exactly
\* when it is the selected candidate
AriaSelectedMirrorsSelection ==
  \A i \in 1 .. Len(children) :
    attrs[children[i]].ariaSelected <=> children[i] = selectedSuggestion

\* the selected candidate is among the enabled candidates after the step
StillEnabled ==
  \E i \in 1 .. Len(EnabledCandidates') :
    EnabledCandidates'[i] = selectedSuggestion

\* C21, as stated: after a slot change the selected candidate stays selected
\* when it is still among the enabled candidates, and nothing is selected
\* otherwise, whether or not the candidates carry identifiers
SlotChangeKeepsSelection ==
  [][ lastEvent' = "slotchange"
      => selectedSuggestion' =
           IF selectedSuggestion # Null /\ StillEnabled
           THEN selectedSuggestion ELSE Null ]_vars

\* C21, amended: after a slot change a selected candidate that carries an
\* identifier stays selected when it is still among the enabled candidates,
\* and nothing is selected when it is not, or when nothing was selected; a
\* selected candidate without identifier hands the selection to the last
\* enabled candidate without identifier, if there is one
SlotChangeKeepsIdentifiedSelection ==
  [][ lastEvent' = "slotchange"
      => IF selectedSuggestion # Null /\ attrs[selectedSuggestion].id = ""
         THEN LET plain == {i \in 1 .. Len(EnabledCandidates') :
                             attrs'[EnabledCandidates'[i]].id = ""}
              IN selectedSuggestion' =
                   IF plain = {} THEN Null
                   ELSE EnabledCandidates'[
                          CHOOSE i \in plain : \A j \in plain : j <= i]
         ELSE selectedSuggestion' =
                IF selectedSuggestion # Null /\ StillEnabled
                THEN selectedSuggestion ELSE Null ]_vars

\* a slot change has kept the selection on an identified candidate that is
\* not the last of the list
SelectionKeptWitness ==
  /\ lastEvent = "slotchange"
  /\ Len(EnabledCandidates) >= 2
  /\ selectedSuggestion = EnabledCandidates[1]
  /\ attrs[selectedSuggestion].id # ""

\* C22: whatever the host has added, removed or disabled before, a
\* navigation step over a non-empty enabled list ends on a candidate of the
\* enabled list as it is at that step
NavigationUsesCurrentList ==
  [][ (/\ SteppedForward \/ SteppedBackward
       /\ Len(EnabledCandidates) >= 1)
      => (/\ selectedSuggestion' # Null
          /\ \E i \in 1 .. Len(EnabledCandidates) :
               EnabledCandidates[i] = selectedSuggestion'
          /\ EnabledCandidates' = EnabledCandidates) ]_vars

\* a navigation step has selected a candidate the host enabled after the
\* last slot change, next to one it disabled after it
NavigatedChangedListWitness ==
  /\ lastEvent = "ArrowDown"
  /\ selectedSuggestion # Null
  /\ ~attrs[selectedSuggestion].role /\ ~attrs[selectedSuggestion].disabled
  /\ \E i \in 1 .. Len(children) :
       attrs[children[i]].disabled /\ attrs[children[i]].role

\* C23: every input and select notification of the widget bubbles, is
\* composed and is cancelable; and an event constructed with an init
\* dictionary has each flag true when the dictionary leaves it undefined,
\* and the caller's value otherwise
NotificationFlags ==
  /\ \A i \in 1 .. Len(emitted) :
       (emitted[i].type = "input" \/ emitted[i].type = "select")
       => (/\ emitted[i].bubbles
           /\ emitted[i].composed
           /\ emitted[i].cancelable)
  /\ \A i \in 1 .. Len(constructed.event) :
       \A flag \in Flags :
         constructed.event[i][flag] =
           IF flag \in DOMAIN constructed.init
           THEN constructed.init[flag] ELSE TRUE

\* the widget has emitted a select notification, and an event was
\* constructed with one flag false, one true and one left out
FlagsWitness ==
  /\ SelectNotifications(emitted) # {}
  /\ DOMAIN constructed.init = {"bubbles", "composed"}
  /\ ~constructed.init.bubbles /\ constructed.init.composed
  /\ ~constructed.event[1].bubbles
  /\ constructed.event[1].composed
  /\ constructed.event[1].cancelable

\* C24: the value the widget is constructed with is the text of the input,
\* and what the user types stays: after the keys typed, and the renders the
\* events caused, the text is the value followed by the keys
TypedTextIsKept ==
  inputText.inputValue = inputText.value \o Join(typing.keys)

\* "ab" typed into a widget constructed with value "v": the text is "vab"
TypedAfterValueWitness ==
  /\ inputText.value = "v"
  /\ typing.keys = <<"a", "b">>
  /\ inputText.inputValue = "vab"
  /\ lastEvent = "input" /\ isExpanded

\* C25: whenever the widget is collapsed no candidate is selected; an arrow
\* key pressed while collapsed (after Escape, say) selects nothing
CollapsedHasNoSelection == ~isExpanded => selectedSuggestion = Null

\* C26: a select notification is only emitted by an event that finds the
\* widget expanded
SelectOnlyWhileExpanded ==
  [][SelectNotifications(emitted') # {} => isExpanded]_vars

\* how many listeners are attached to a target for a type of event
ListenerCount(target, type) ==
  Cardinality({i \in 1 .. Len(listeners) :
                 listeners[i].target = target /\ listeners[i].type = type})

\* C27: while the widget is expanded exactly one click listener is attached
\* to the document, one pointerover and one click listener to the suggestion
\* list, however many focus and input events expanded it again
OneListenerOfEachKind ==
  isExpanded => /\ ListenerCount("document", "click") = 1
                /\ ListenerCount("suggestionList", "pointerover") = 1
                /\ ListenerCount("suggestionList", "click") = 1

\* C28: one click on the selected candidate emits exactly one select
\* notification, however many times the list was expanded before
ClickCommitsOnce ==
  [][ (/\ lastEvent' = "clickList"
       /\ selectedSuggestion # Null
       /\ pointerEvent'.target = selectedSuggestion)
      => Cardinality(SelectNotifications(emitted')) = 1 ]_vars

\* the candidates that carry aria-selected="true"
MarkedSelected ==
  {i \in 1 .. Len(children) : attrs[children[i]].ariaSelected}

\* C29: in every state at most one candidate carries aria-selected="true",
\* whatever navigation, collapse and changes of the host's list came before
AtMostOneAriaSelected == Cardinality(MarkedSelected) <= 1

\* C30: a keydown for a key other than Enter, ArrowDown, ArrowUp, Escape
\* and Tab leaves the selection, the expansion and the listener group as
\* they are and emits no notification
OtherKeysChangeNothing ==
  [][ lastEvent' \in OtherKeys
      => (/\ selectedSuggestion' = selectedSuggestion
          /\ isExpanded' = isExpanded
          /\ listeners' = listeners
          /\ suggestionListAbortController' = suggestionListAbortController
          /\ attrs' = attrs
          /\ emitted' = <<>>) ]_vars

\* such a key was pressed while the widget was expanded with a candidate
\* selected, and both are still so
OtherKeyWhileSelectedWitness ==
  /\ lastEvent \in OtherKeys
  /\ isExpanded /\ selectedSuggestion # Null
  /\ attrs[selectedSuggestion].ariaSelected
  /\ Len(listeners) = 3

====
